---- MODULE Spec2Model ----
(***************************************************************************)
(* Built-in syscalls of rbpf (src/src/syscalls.rs): the six SyscallObject  *)
(* implementations, the guest memory they reach through                    *)
(* MemoryMapping::map, and the output slot `result` each call() fills in.  *)
(*                                                                         *)
(* u64 values are sequences of 8 bytes, most significant first, so that    *)
(* the full 64-bit width is kept.  Guest and host addresses are small      *)
(* naturals: the syscalls only add small offsets to them.                  *)
(***************************************************************************)
EXTENDS Integers, Sequences, FiniteSets, TLC

VARIABLES
    mem,        \* host memory: host address -> byte
    context,    \* SyscallWithContext.context
    ctxCalls,   \* history: invocations of SyscallWithContext on the instance
    result,     \* the caller's output slot (&mut Result)
    last        \* history: the invocation that has just ended, if any

vars == <<mem, context, ctxCalls, result, last>>

----------------------------------------------------------------------------
(* Bounds of the model *)

\* bytes in each mapped region
RegionLen == 2

----------------------------------------------------------------------------
(* Bytes and u64 *)

Pow2(n) == 2 ^ n

BitOf(x, i) == (x \div Pow2(i)) % 2

\* u8 ^ u8
Xor8(a, b) ==
    LET f[i \in 0..8] ==
            IF i = 8 THEN 0
            ELSE ((BitOf(a, i) + BitOf(b, i)) % 2) * Pow2(i) + f[i + 1]
    IN f[0]

\* u8 | u8
Or8(a, b) ==
    LET f[i \in 0..8] ==
            IF i = 8 THEN 0
            ELSE (IF BitOf(a, i) + BitOf(b, i) > 0 THEN Pow2(i) ELSE 0) + f[i + 1]
    IN f[0]

\* the u64 of a natural below 2^31
U64Of(n) == [j \in 1..8 |-> IF j <= 4 THEN 0 ELSE (n \div (256 ^ (8 - j))) % 256]

\* u64::MAX
U64Max == [j \in 1..8 |-> 255]

\* bit i (0 = least significant) of a u64
U64Bit(x, i) == BitOf(x[8 - (i \div 8)], i % 8)

\* the u64 whose bit i is f[i], i in 0..63
U64FromBits(f) ==
    [j \in 1..8 |->
        LET base == 8 * (8 - j)
            s[k \in 0..8] == IF k = 8 THEN 0 ELSE f[base + k] * Pow2(k) + s[k + 1]
        IN s[0]]

\* u64::wrapping_shl: shift left by n mod 64 bits, dropping the high bits
WrappingShl(x, n) ==
    LET s == n % 64
    IN U64FromBits([i \in 0..63 |-> IF i >= s THEN U64Bit(x, i - s) ELSE 0])

\* u64 | u64
U64Or(x, y) == [j \in 1..8 |-> Or8(x[j], y[j])]

\* number of significant bits of a u64 (0 for 0)
U64BitLen(x) ==
    IF \A i \in 0..63 : U64Bit(x, i) = 0 THEN 0
    ELSE 1 + CHOOSE i \in 0..63 :
                 /\ U64Bit(x, i) = 1
                 /\ \A k \in (i + 1)..63 : U64Bit(x, k) = 0

----------------------------------------------------------------------------
(* Result<u64, EbpfError<UserError>> *)

Ok(v) == [ok |-> TRUE, val |-> v]

Err(e) == [ok |-> FALSE, err |-> e]

----------------------------------------------------------------------------
(* Guest memory: the regions of the MemoryMapping and MemoryMapping::map   *)

Load == "Load"
Store == "Store"

\* guest address of region k: regions lie apart in the guest address space
VaOf(k) == k * (RegionLen + 2)

\* MemoryRegion::default(), a read-only region and a writable region, laid
\* out one after the other in host memory
Regions ==
    << [host_addr |-> 0, vm_addr |-> 0, len |-> 0, is_writable |-> FALSE],
       [host_addr |-> 1, vm_addr |-> VaOf(1), len |-> RegionLen, is_writable |-> FALSE],
       [host_addr |-> 1 + RegionLen, vm_addr |-> VaOf(2), len |-> RegionLen,
        is_writable |-> TRUE] >>

\* host addresses backed by memory: the two buffers and one byte of other
\* host data behind them; every other host address is an unmapped page
HostAddrs == 1..(2 * RegionLen + 1)

\* host addresses of region k
HostRange(k) == Regions[k].host_addr..(Regions[k].host_addr + Regions[k].len - 1)

\* region k answers a request (access, vm_addr, len)
Covers(k, access, vm_addr, len) ==
    /\ Regions[k].len > 0
    /\ Regions[k].vm_addr <= vm_addr
    /\ vm_addr + len <= Regions[k].vm_addr + Regions[k].len
    /\ (access = Store => Regions[k].is_writable)

\* MemoryMapping::map(access, vm_addr, len): the host address of vm_addr when
\* [vm_addr, vm_addr + len) lies within one region that allows the access,
\* else AccessViolation
Map(access, vm_addr, len) ==
    IF \E k \in DOMAIN Regions : Covers(k, access, vm_addr, len)
    THEN LET k == CHOOSE r \in DOMAIN Regions : Covers(r, access, vm_addr, len)
         IN [ok |-> TRUE, access |-> access, vm_addr |-> vm_addr, len |-> len,
             region |-> k,
             host_addr |-> Regions[k].host_addr + (vm_addr - Regions[k].vm_addr)]
    ELSE [ok |-> FALSE, access |-> access, vm_addr |-> vm_addr, len |-> len,
          region |-> 0, host_addr |-> 0]

\* EbpfError::AccessViolation of a failed request
AccessViolation(t) ==
    [kind |-> "AccessViolation", access |-> t.access, vm_addr |-> t.vm_addr, len |-> t.len]

----------------------------------------------------------------------------
(* What one invocation of call() did *)

\* the record of an invocation: the bytes it stored (host address -> byte),
\* the values it wrote into the output slot (in order), the line it printed,
\* how it ended, its translation requests and the host addresses it read
Outcome(stores, writes, line, ended, translations, reads) ==
    [stores |-> stores, writes |-> writes, line |-> line, ended |-> ended,
     translations |-> translations, reads |-> reads]

\* no byte stored
NoStores == [h \in {} |-> 0]

\* question_mark!(value, result) on Err: *result = Err(err.into()); return
QuestionMark(t, translations) ==
    Outcome(NoStores, << Err(AccessViolation(t)) >>, << >>, "returned", translations, {})

\* the characters a line holds: a line is a sequence of string pieces
RECURSIVE LineLen(_)
LineLen(line) == IF line = << >> THEN 0 ELSE Len(Head(line)) + LineLen(Tail(line))

HexDigit ==
    << "0", "1", "2", "3", "4", "5", "6", "7", "8", "9", "a", "b", "c", "d", "e", "f" >>

\* nibble i (0 = least significant) of a u64
Nibble(x, i) ==
    U64Bit(x, 4 * i) + 2 * U64Bit(x, 4 * i + 1) + 4 * U64Bit(x, 4 * i + 2)
        + 8 * U64Bit(x, 4 * i + 3)

\* format!("{:#x}", x): "0x" and the hexadecimal digits without leading zeros
FmtHex(x) ==
    LET n == IF U64BitLen(x) = 0 THEN 1 ELSE (U64BitLen(x) + 3) \div 4
    IN << "0x" >> \o [k \in 1..n |-> HexDigit[Nibble(x, n - k) + 1]]

----------------------------------------------------------------------------
(* BpfTracePrintf *)

\* significant bits of an f64 mantissa
F64_MANTISSA == 53

\* leading one bits of y, just below a power of 16, from which the f64
\* quotient ln(y) / ln(16) rounds to the integer above
LOG_ROUNDS_UP == 48

\* number of significant bits of a value of up to 65 bits given by its bits
BitLen65(b) ==
    IF \A i \in 0..64 : b[i] = 0 THEN 0
    ELSE 1 + CHOOSE i \in 0..64 : b[i] = 1 /\ \A k \in (i + 1)..64 : b[k] = 0

\* x as f64: the nearest value with 53 significant bits, ties to even.  The
\* value is an integer of up to 65 bits and is given by its bits
AsF64(x) ==
    LET b == [i \in 0..64 |-> IF i < 64 THEN U64Bit(x, i) ELSE 0]
        n == BitLen65(b)
        d == n - F64_MANTISSA
    IN  IF d <= 0 THEN b
        ELSE LET guard == b[d - 1]
                 sticky == \E i \in 0..(d - 2) : b[i] = 1
                 up == guard = 1 /\ (sticky \/ b[d] = 1)
                 z == CHOOSE i \in d..64 : b[i] = 0 /\ \A k \in d..(i - 1) : b[k] = 1
             IN  IF up
                 THEN [i \in 0..64 |-> IF i < z THEN 0 ELSE IF i = z THEN 1 ELSE b[i]]
                 ELSE [i \in 0..64 |-> IF i < d THEN 0 ELSE b[i]]

\* number of one bits at the top of a value given by its bits
LeadingOnes(b) ==
    LET n == BitLen65(b)
    IN  IF \A i \in 0..(n - 1) : b[i] = 1 THEN n
        ELSE n - 1 - CHOOSE i \in 0..(n - 1) : b[i] = 0 /\ \A k \in (i + 1)..(n - 1) : b[k] = 1

\* y.log(16.0).floor() for y >= 1: ln(y) / ln(16) in f64 arithmetic.  Just
\* below a power of 16 the quotient rounds to the integer above; where the
\* rounding depends on the platform's ln both values are possible
Log16Floor(y) ==
    LET n == BitLen65(y)
        e == (n - 1) \div 4
    IN  IF n % 4 = 0 /\ LeadingOnes(y) >= LOG_ROUNDS_UP THEN {e + 1}
        ELSE IF n % 4 = 0 /\ LeadingOnes(y) = LOG_ROUNDS_UP - 1 THEN {e, e + 1}
        ELSE {e}

\* the closure size_arg: the values it can return for x
SizeArg(x) ==
    IF x = U64Of(0) THEN {1} ELSE {e + 1 : e \in Log16Floor(AsF64(x))}

\* the line println! emits
TracePrintfLine(arg3, arg4, arg5) ==
    << "BpfTracePrintf: " >> \o FmtHex(arg3) \o << ", " >> \o FmtHex(arg4)
        \o << ", " >> \o FmtHex(arg5) \o << "\n" >>

\* "BpfTracePrintf: 0x, 0x, 0x\n".len()
TracePrintfBase == LineLen(<< "BpfTracePrintf: 0x, 0x, 0x\n" >>)

\* BpfTracePrintf::call; s3, s4, s5 are what size_arg returned
BpfTracePrintfCall(arg3, arg4, arg5, s3, s4, s5) ==
    Outcome(NoStores, << Ok(U64Of(TracePrintfBase + s3 + s4 + s5)) >>,
            TracePrintfLine(arg3, arg4, arg5), "returned", << >>, {})

----------------------------------------------------------------------------
(* BpfGatherBytes *)

\* BpfGatherBytes::call
BpfGatherBytesCall(arg1, arg2, arg3, arg4, arg5) ==
    Outcome(NoStores,
            << Ok(U64Or(U64Or(U64Or(U64Or(WrappingShl(arg1, 32), WrappingShl(arg2, 24)),
                                    WrappingShl(arg3, 16)),
                              WrappingShl(arg4, 8)),
                        arg5)) >>,
            << >>, "returned", << >>, {})

----------------------------------------------------------------------------
(* BpfMemFrob *)

\* the mask of *p ^= 0b101010
FROB_MASK == 42

\* mutant: |= in place of ^=
FrobByteOr(b) == Or8(b, FROB_MASK)

\* *p ^= 0b101010
FrobByte(b) == Xor8(b, FROB_MASK)

\* mutant: 0..=len in place of 0..len
FrobRangeInclusive(m, host_addr, len) ==
    [h \in {host_addr + i : i \in 0..len} |-> FrobByte(m[h])]

\* for i in 0..len { let p = (host_addr + i) as *mut u8; *p ^= 0b101010; }
FrobRange(m, host_addr, len) ==
    [h \in {host_addr + i : i \in 0..(len - 1)} |-> FrobByte(m[h])]

\* mutant: each byte translated and XORed in turn, so that a range leaving
\* the region fails after the bytes before its end were changed
BpfMemFrobCallPerByte(m, vm_addr, len) ==
    LET t == Map(Store, vm_addr, len)
        t1 == Map(Store, vm_addr, 1)
    IN  IF t.ok
        THEN Outcome(FrobRange(m, t.host_addr, len), << Ok(U64Of(0)) >>, << >>,
                     "returned", << t >>, {t.host_addr + i : i \in 0..(len - 1)})
        ELSE IF ~t1.ok \/ len = 0 THEN QuestionMark(t, << t >>)
        ELSE [QuestionMark(t, << t >>) EXCEPT
                 !.stores = FrobRange(m, t1.host_addr,
                                      Regions[t1.region].vm_addr + Regions[t1.region].len
                                          - vm_addr)]

\* BpfMemFrob::call
BpfMemFrobCall(m, vm_addr, len) ==
    LET t == Map(Store, vm_addr, len)
    IN  IF ~t.ok THEN QuestionMark(t, << t >>)
        ELSE Outcome(FrobRange(m, t.host_addr, len), << Ok(U64Of(0)) >>, << >>,
                     "returned", << t >>, {t.host_addr + i : i \in 0..(len - 1)})

----------------------------------------------------------------------------
(* BpfStrCmp *)

\* the outcome of dereferencing a host address that was not translated
Fault == 255 + 1

\* *(p as *const u8) for a byte of the region t was translated in; past that
\* region the read is out of bounds: it faults on an unmapped page (always
\* one when guarded), else it yields whatever host memory holds there
Deref(m, p, t, guarded) ==
    IF p \in HostRange(t.region) THEN m[p]
    ELSE IF guarded \/ p \notin DOMAIN m THEN Fault
    ELSE m[p]

\* the while loop of BpfStrCmp::call from offset i on: a and b advance
\* together, one byte each, with no further translation
RECURSIVE StrCmpLoop(_, _, _, _, _)
StrCmpLoop(m, ta, tb, i, guarded) ==
    LET a_val == Deref(m, ta.host_addr + i, ta, guarded)
        b_val == Deref(m, tb.host_addr + i, tb, guarded)
    IN  IF a_val = Fault \/ b_val = Fault
        THEN [ended |-> "crashed", a_val |-> a_val, b_val |-> b_val, n |-> i]
        ELSE IF a_val = b_val /\ a_val # 0 /\ b_val # 0
        THEN StrCmpLoop(m, ta, tb, i + 1, guarded)
        ELSE [ended |-> "returned", a_val |-> a_val, b_val |-> b_val, n |-> i + 1]

\* mutant: a_val.wrapping_sub(b_val) with no comparison
ByteDiffWrapping(a_val, b_val) == (a_val - b_val) % 256

\* if a_val >= b_val { a_val - b_val } else { b_val - a_val }
ByteDiff(a_val, b_val) == IF a_val >= b_val THEN a_val - b_val ELSE b_val - a_val

\* the host addresses the loop dereferenced: n bytes of each string
StrCmpReads(ta, tb, n) ==
    {ta.host_addr + i : i \in 0..(n - 1)} \cup {tb.host_addr + i : i \in 0..(n - 1)}

\* mutant: && in place of ||
StrCmpIsNullBoth(arg1, arg2) == arg1 = 0 /\ arg2 = 0

\* if arg1 == 0 || arg2 == 0
StrCmpIsNull(arg1, arg2) == arg1 = 0 \/ arg2 = 0

\* BpfStrCmp::call past the null check: the two translations, the loop and
\* the result
StrCmpBody(m, arg1, arg2, guarded) ==
    LET ta == Map(Load, arg1, 1)
    IN  IF ~ta.ok THEN QuestionMark(ta, << ta >>)
        ELSE LET tb == Map(Load, arg2, 1)
             IN  IF ~tb.ok THEN QuestionMark(tb, << ta, tb >>)
                 ELSE LET w == StrCmpLoop(m, ta, tb, 0, guarded)
                      IN  Outcome(NoStores,
                                  IF w.ended = "returned"
                                  THEN << Ok(U64Of(ByteDiff(w.a_val, w.b_val))) >>
                                  ELSE << >>,
                                  << >>, w.ended, << ta, tb >>,
                                  StrCmpReads(ta, tb, w.n))

\* mutant: the null check writes u64::MAX and does not return
BpfStrCmpCallFallThrough(m, arg1, arg2, guarded) ==
    LET r == StrCmpBody(m, arg1, arg2, guarded)
    IN  IF StrCmpIsNull(arg1, arg2) THEN [r EXCEPT !.writes = << Ok(U64Max) >> \o @] ELSE r

\* BpfStrCmp::call
BpfStrCmpCall(m, arg1, arg2, guarded) ==
    IF StrCmpIsNull(arg1, arg2)
    THEN Outcome(NoStores, << Ok(U64Max) >>, << >>, "returned", << >>, {})
    ELSE StrCmpBody(m, arg1, arg2, guarded)

----------------------------------------------------------------------------
(* BpfSyscallString *)

\* a UTF-8 continuation byte
IsCont(s, i) == i <= Len(s) /\ s[i] \in 128..191

\* std::str::from_utf8(s).is_ok(), from position i on
RECURSIVE IsUtf8(_, _)
IsUtf8(s, i) ==
    IF i > Len(s) THEN TRUE
    ELSE LET b == s[i]
         IN  IF b < 128 THEN IsUtf8(s, i + 1)
             ELSE IF b \in 194..223 THEN IsCont(s, i + 1) /\ IsUtf8(s, i + 2)
             ELSE IF b \in 224..239
             THEN /\ IsCont(s, i + 1)
                  /\ (b = 224 => s[i + 1] >= 160)
                  /\ (b = 237 => s[i + 1] <= 159)
                  /\ IsCont(s, i + 2)
                  /\ IsUtf8(s, i + 3)
             ELSE IF b \in 240..244
             THEN /\ IsCont(s, i + 1)
                  /\ (b = 240 => s[i + 1] >= 144)
                  /\ (b = 244 => s[i + 1] <= 143)
                  /\ IsCont(s, i + 2)
                  /\ IsCont(s, i + 3)
                  /\ IsUtf8(s, i + 4)
             ELSE FALSE

\* from_raw_parts(host_addr as *const u8, len as usize)
RawParts(m, host_addr, len) == [i \in 1..len |-> m[host_addr + i - 1]]

\* BpfSyscallString::call: the scan for a zero byte has no effect; the whole
\* len bytes are printed, or the placeholder when they are not UTF-8
BpfSyscallStringCall(m, vm_addr, len) ==
    LET t == Map(Load, vm_addr, len)
    IN  IF ~t.ok THEN QuestionMark(t, << t >>)
        ELSE LET bytes == RawParts(m, t.host_addr, len)
                 message == IF IsUtf8(bytes, 1) THEN bytes ELSE "Invalid UTF-8 String"
             IN  Outcome(NoStores, << Ok(U64Of(0)) >>, << "log: ", message, "\n" >>, "returned",
                         << t >>, {t.host_addr + i : i \in 0..(len - 1)})

----------------------------------------------------------------------------
(* BpfSyscallU64 *)

\* BpfSyscallU64::call
BpfSyscallU64Call(arg1, arg2, arg3, arg4, arg5) ==
    Outcome(NoStores, << Ok(U64Of(0)) >>,
            << "dump_64: " >> \o FmtHex(arg1) \o << ", " >> \o FmtHex(arg2) \o << ", " >>
                \o FmtHex(arg3) \o << ", " >> \o FmtHex(arg4) \o << ", " >> \o FmtHex(arg5)
                \o << ", ", "memory_mapping", "\n" >>,
            "returned", << >>, {})

----------------------------------------------------------------------------
(* SyscallWithContext *)

\* the context value assert_eq! expects
CONTEXT_EXPECTED == 42

\* the context value a successful call leaves
CONTEXT_USED == 84

\* the line println! emits before the assertion
ContextLine(arg1, arg2, arg3, arg4, arg5) ==
    << "SyscallWithContext: ", "self", ", " >> \o FmtHex(arg1) \o << ", " >>
        \o FmtHex(arg2) \o << ", " >> \o FmtHex(arg3) \o << ", " >> \o FmtHex(arg4)
        \o << ", " >> \o FmtHex(arg5) \o << ", ", "memory_mapping", "\n" >>

\* mutant: self.context = 84 left out
SyscallWithContextCallKeep(c, arg1, arg2, arg3, arg4, arg5) ==
    IF c # CONTEXT_EXPECTED
    THEN [context |-> c,
          out |-> Outcome(NoStores, << >>, ContextLine(arg1, arg2, arg3, arg4, arg5),
                          "panicked", << >>, {})]
    ELSE [context |-> c,
          out |-> Outcome(NoStores, << Ok(U64Of(0)) >>,
                          ContextLine(arg1, arg2, arg3, arg4, arg5), "returned", << >>, {})]

\* SyscallWithContext::call entered with context c: assert_eq!(c, 42) panics,
\* else the context becomes 84 and the slot Ok(0)
SyscallWithContextCall(c, arg1, arg2, arg3, arg4, arg5) ==
    IF c # CONTEXT_EXPECTED
    THEN [context |-> c,
          out |-> Outcome(NoStores, << >>, ContextLine(arg1, arg2, arg3, arg4, arg5),
                          "panicked", << >>, {})]
    ELSE [context |-> CONTEXT_USED,
          out |-> Outcome(NoStores, << Ok(U64Of(0)) >>, ContextLine(arg1, arg2, arg3, arg4, arg5),
                          "returned", << >>, {})]

----------------------------------------------------------------------------
(* Inputs *)

\* the bytes memory holds initially
ByteVals == {0, 17}

\* initial contents of the read-only region: a zero-terminated string, or
\* bytes with no terminator
RoImages ==
    { [i \in 1..RegionLen |-> IF i = RegionLen THEN 0 ELSE 17],
      [i \in 1..RegionLen |-> 17] }

\* the values SyscallWithContext::init is given
ContextVals == {CONTEXT_EXPECTED, 7}

\* guest addresses passed as arguments: null, and each region's addresses up
\* to the one just past its end
ArgAddrs == {0} \cup {VaOf(k) + i : k \in 1..2, i \in 0..RegionLen}

\* lengths passed as arguments
ArgLens == 0..(RegionLen + 1)

\* u64 arguments of BpfGatherBytes: a byte, or a value with higher bits set
GatherArgs ==
    << {U64Of(17), U64Max}, {U64Of(34), U64Of(290)}, {U64Of(51)},
       {U64Of(68)}, {U64Of(85), U64Of(341)} >>

\* u64 arguments 3..5 of BpfTracePrintf
PrintfArgs ==
    << {U64Of(1), U64Max},
       {U64Of(0), U64Of(15), << 0, 0, 255, 255, 255, 255, 255, 255 >>},
       {U64Of(32), << 0, 32, 0, 0, 0, 0, 0, 1 >>} >>

\* u64 arguments of BpfSyscallU64 and SyscallWithContext
DumpArgs == {U64Of(0), U64Max}

----------------------------------------------------------------------------
(* The calls that read no memory, with their outcomes *)

TracePrintfCalls ==
    UNION { { [args |-> a, out |-> BpfTracePrintfCall(a[1], a[2], a[3], s[1], s[2], s[3])] :
                s \in SizeArg(a[1]) \X SizeArg(a[2]) \X SizeArg(a[3]) } :
            a \in PrintfArgs[1] \X PrintfArgs[2] \X PrintfArgs[3] }

GatherBytesCalls ==
    { [args |-> a, out |-> BpfGatherBytesCall(a[1], a[2], a[3], a[4], a[5])] :
        a \in GatherArgs[1] \X GatherArgs[2] \X GatherArgs[3] \X GatherArgs[4]
                \X GatherArgs[5] }

SyscallU64Calls ==
    { [args |-> << a, a, a, a, a >>, out |-> BpfSyscallU64Call(a, a, a, a, a)] :
        a \in DumpArgs }

WithContextCalls ==
    { [args |-> << a, a, a, a, a >>, ctx |-> c,
       call |-> SyscallWithContextCall(c, a, a, a, a, a)] :
        a \in DumpArgs, c \in ContextVals \cup {CONTEXT_USED} }

----------------------------------------------------------------------------
(* The state machine *)

NoCall == [op |-> "none"]

\* the slot a caller hands to call(): let mut result: Result = Ok(0)
FreshSlot == Ok(U64Of(0))

Init ==
    /\ \E ro \in RoImages, rw \in [1..RegionLen -> ByteVals], other \in ByteVals :
           mem = [h \in HostAddrs |->
                     IF h \in HostRange(2) THEN ro[h - Regions[2].host_addr + 1]
                     ELSE IF h \in HostRange(3) THEN rw[h - Regions[3].host_addr + 1]
                     ELSE other]
    /\ context \in ContextVals
    /\ ctxCalls = 0
    /\ result = FreshSlot
    /\ last = NoCall

\* the output slot after the writes of an invocation
SlotAfter(slot, writes) == IF writes = << >> THEN slot ELSE writes[Len(writes)]

\* memory after the stores of an invocation
MemAfter(m, stores) == [h \in DOMAIN m |-> IF h \in DOMAIN stores THEN stores[h] ELSE m[h]]

\* what an invocation leaves behind: op(args) with outcome out, after prev
Record(op, args, out, prev) ==
    [op |-> op, args |-> args, pre |-> mem, ctx |-> context, slot |-> result,
     ended |-> out.ended, writes |-> out.writes, line |-> out.line,
     translations |-> out.translations, reads |-> out.reads,
     stored |-> DOMAIN out.stores, prev |-> prev]

\* one invocation of call(): op(args) with outcome out
Invoke(op, args, out) ==
    /\ last = NoCall
    /\ mem' = MemAfter(mem, out.stores)
    /\ result' = SlotAfter(result, out.writes)
    /\ last' = Record(op, args, out, NoCall)

BpfTracePrintf ==
    \E c \in TracePrintfCalls :
        /\ Invoke("BpfTracePrintf", c.args, c.out)
        /\ UNCHANGED << context, ctxCalls >>

BpfGatherBytes ==
    \E c \in GatherBytesCalls :
        /\ Invoke("BpfGatherBytes", c.args, c.out)
        /\ UNCHANGED << context, ctxCalls >>

BpfMemFrob ==
    \E vm_addr \in ArgAddrs, len \in ArgLens :
        /\ Invoke("BpfMemFrob", << vm_addr, len >>, BpfMemFrobCall(mem, vm_addr, len))
        /\ UNCHANGED << context, ctxCalls >>

\* BpfMemFrob called again straight away with the same arguments and the same
\* slot, as in its doc test
BpfMemFrobAgain ==
    /\ last # NoCall
    /\ last.op = "BpfMemFrob"
    /\ last.ended = "returned"
    /\ LET out == BpfMemFrobCall(mem, last.args[1], last.args[2])
       IN  /\ mem' = MemAfter(mem, out.stores)
           /\ result' = SlotAfter(result, out.writes)
           /\ last' = Record("BpfMemFrob", last.args, out, [last EXCEPT !.prev = NoCall])
    /\ UNCHANGED << context, ctxCalls >>

BpfStrCmp ==
    \E arg1 \in ArgAddrs, arg2 \in ArgAddrs, guarded \in BOOLEAN :
        /\ Invoke("BpfStrCmp", << arg1, arg2 >>, BpfStrCmpCall(mem, arg1, arg2, guarded))
        /\ UNCHANGED << context, ctxCalls >>

BpfSyscallString ==
    \E vm_addr \in ArgAddrs, len \in ArgLens :
        /\ Invoke("BpfSyscallString", << vm_addr, len >>,
                  BpfSyscallStringCall(mem, vm_addr, len))
        /\ UNCHANGED << context, ctxCalls >>

BpfSyscallU64 ==
    \E c \in SyscallU64Calls :
        /\ Invoke("BpfSyscallU64", c.args, c.out)
        /\ UNCHANGED << context, ctxCalls >>

SyscallWithContext ==
    \E c \in WithContextCalls :
        /\ c.ctx = context
        /\ Invoke("SyscallWithContext", c.args, c.call.out)
        /\ context' = c.call.context
        /\ ctxCalls' = ctxCalls + 1

\* call() has returned: the caller takes the outcome and hands the next call a
\* fresh slot.  An invocation that panicked or crashed never returns
Return ==
    /\ last # NoCall
    /\ last.ended = "returned"
    /\ last' = NoCall
    /\ result' = FreshSlot
    /\ UNCHANGED << mem, context, ctxCalls >>

Next ==
    \/ BpfTracePrintf
    \/ BpfGatherBytes
    \/ BpfMemFrob
    \/ BpfMemFrobAgain
    \/ BpfStrCmp
    \/ BpfSyscallString
    \/ BpfSyscallU64
    \/ SyscallWithContext
    \/ Return

Spec == Init /\ [][Next]_vars

----------------------------------------------------------------------------
(* Properties *)

\* the last step was an invocation of op
IsOp(op) == last # NoCall /\ last.op = op

Ok0 == Ok(U64Of(0))

\* C1: BpfMemFrob invoked twice in a row with the same address and length,
\* the Store translation succeeding, leaves every byte of memory as it was
\* before the first invocation, and both invocations resolve to Ok(0).
MemFrobInvolution ==
    (IsOp("BpfMemFrob") /\ last.prev # NoCall /\ last.prev.translations[1].ok)
        => /\ last.args = last.prev.args
           /\ mem = last.prev.pre
           /\ last.prev.writes = << Ok0 >>
           /\ last.writes = << Ok0 >>
           /\ result = Ok0

\* a second invocation over a non-empty range whose first one changed memory
MemFrobTwiceReached ==
    /\ IsOp("BpfMemFrob")
    /\ last.prev # NoCall
    /\ last.prev.translations[1].ok
    /\ last.args[2] = RegionLen
    /\ last.pre # mem
    /\ \E h \in DOMAIN mem : mem[h] = 17 /\ last.pre[h] = 59

\* the request (vm_addr, len) starts inside the writable region and ends
\* past it
PartlyWritable(vm_addr, len) ==
    /\ Regions[3].vm_addr <= vm_addr
    /\ vm_addr < Regions[3].vm_addr + Regions[3].len
    /\ vm_addr + len > Regions[3].vm_addr + Regions[3].len

\* C2: in BpfMemFrob, BpfStrCmp and BpfSyscallString a failed translation
\* request is the last thing the invocation does: the slot holds that
\* request's AccessViolation and no byte of memory has changed; a BpfMemFrob
\* range only partly inside the writable region leaves the buffer as it was.
TranslationFailureStops ==
    /\ (last # NoCall /\ last.op \in {"BpfMemFrob", "BpfStrCmp", "BpfSyscallString"})
          => \A i \in DOMAIN last.translations :
                 ~last.translations[i].ok
                    => /\ i = Len(last.translations)
                       /\ last.ended = "returned"
                       /\ last.writes = << Err(AccessViolation(last.translations[i])) >>
                       /\ result = Err(AccessViolation(last.translations[i]))
                       /\ last.reads = {}
                       /\ last.stored = {}
                       /\ mem = last.pre
    /\ (IsOp("BpfMemFrob") /\ PartlyWritable(last.args[1], last.args[2]))
          => /\ mem = last.pre
             /\ ~result.ok
             /\ result.err.kind = "AccessViolation"

\* a BpfMemFrob range that starts in the writable region and leaves it
PartialFrobReached ==
    /\ IsOp("BpfMemFrob")
    /\ PartlyWritable(last.args[1], last.args[2])
    /\ ~result.ok
    /\ \E h \in HostRange(3) : mem[h] # 0

\* C3 (as claimed): every byte BpfStrCmp reads is the byte of a successful
\* Load translation of length 1 made in the same invocation, and a success
\* value is never computed from bytes outside the regions of its strings.
StrCmpTranslatesEachByte ==
    IsOp("BpfStrCmp")
        => /\ \A h \in last.reads :
                  \E i \in DOMAIN last.translations :
                      /\ last.translations[i].ok
                      /\ last.translations[i].access = Load
                      /\ last.translations[i].len = 1
                      /\ last.translations[i].host_addr = h
           /\ (last.ended = "returned" /\ result.ok /\ last.translations # << >>)
                  => last.reads \subseteq
                         (HostRange(last.translations[1].region)
                              \cup HostRange(last.translations[2].region))
           /\ last.ended # "crashed"

\* the low byte of each of the five arguments, at bits 32, 24, 16, 8 and 0
PackedLowBytes(a) == << 0, 0, 0, a[1][8], a[2][8], a[3][8], a[4][8], a[5][8] >>

\* C4 (as claimed): BpfGatherBytes returns the low bytes of its five
\* arguments packed at bits 32, 24, 16, 8 and 0, and translates nothing.
GatherPacksLowBytes ==
    IsOp("BpfGatherBytes")
        => /\ result = Ok(PackedLowBytes(last.args))
           /\ last.translations = << >>

\* C5: BpfStrCmp with arg1 = 0 or arg2 = 0 resolves to Ok(u64::MAX) and
\* makes no translation request, whatever the other argument is.
StrCmpNullIsMax ==
    (IsOp("BpfStrCmp") /\ (last.args[1] = 0 \/ last.args[2] = 0))
        => /\ last.ended = "returned"
           /\ last.writes = << Ok(U64Max) >>
           /\ result = Ok(U64Max)
           /\ last.translations = << >>
           /\ last.reads = {}

\* one argument null, the other a mapped address
StrCmpNullReached ==
    /\ IsOp("BpfStrCmp")
    /\ last.args[1] = 0
    /\ Map(Load, last.args[2], 1).ok
    /\ result = Ok(U64Max)

\* the string at translated address t has its zero terminator in t's region
Terminated(m, t) ==
    \E h \in HostRange(t.region) : h >= t.host_addr /\ m[h] = 0

\* the bytes before the terminator of the string at t
CStrLen(m, t) ==
    CHOOSE n \in 0..RegionLen :
        /\ t.host_addr + n \in HostRange(t.region)
        /\ m[t.host_addr + n] = 0
        /\ \A j \in 0..(n - 1) : m[t.host_addr + j] # 0

\* the smaller of two numbers
Min(x, y) == IF x <= y THEN x ELSE y

\* the first position where the two strings differ or end
StopAt(m, ta, tb) ==
    CHOOSE k \in 0..Min(CStrLen(m, ta), CStrLen(m, tb)) :
        /\ m[ta.host_addr + k] # m[tb.host_addr + k] \/ m[ta.host_addr + k] = 0
        /\ \A j \in 0..(k - 1) :
               m[ta.host_addr + j] = m[tb.host_addr + j] /\ m[ta.host_addr + j] # 0

\* the two strings are equal up to and including their terminators
StrEqual(m, ta, tb) ==
    /\ CStrLen(m, ta) = CStrLen(m, tb)
    /\ \A j \in 0..CStrLen(m, ta) : m[ta.host_addr + j] = m[tb.host_addr + j]

\* the larger of two bytes minus the smaller
Magnitude(x, y) == IF x > y THEN x - y ELSE y - x

\* both arguments are non-null addresses of terminated strings in readable
\* memory
BothTerminated ==
    /\ IsOp("BpfStrCmp")
    /\ last.args[1] # 0
    /\ last.args[2] # 0
    /\ Map(Load, last.args[1], 1).ok
    /\ Map(Load, last.args[2], 1).ok
    /\ Terminated(last.pre, Map(Load, last.args[1], 1))
    /\ Terminated(last.pre, Map(Load, last.args[2], 1))

\* C6: for two non-null addresses of zero-terminated strings in readable
\* memory BpfStrCmp reads both strings up to the first position where the
\* bytes differ or one is zero, returns 0 exactly when the strings are equal
\* up to their terminators, and else the larger of the two bytes at that
\* position minus the smaller, a value in 1..255.
StrCmpComparesStrings ==
    BothTerminated
        => LET ta == Map(Load, last.args[1], 1)
               tb == Map(Load, last.args[2], 1)
               k == StopAt(last.pre, ta, tb)
               d == Magnitude(last.pre[ta.host_addr + k], last.pre[tb.host_addr + k])
           IN  /\ last.ended = "returned"
               /\ last.writes = << Ok(U64Of(d)) >>
               /\ result = Ok(U64Of(d))
               /\ d \in 0..255
               /\ (d = 0 <=> StrEqual(last.pre, ta, tb))
               /\ last.reads = {ta.host_addr + j : j \in 0..k}
                                  \cup {tb.host_addr + j : j \in 0..k}

\* two terminated strings in different regions that differ in non-zero
\* bytes, the first string holding the smaller one
StrCmpMismatchReached ==
    /\ BothTerminated
    /\ LET ta == Map(Load, last.args[1], 1)
           tb == Map(Load, last.args[2], 1)
           k == StopAt(last.pre, ta, tb)
       IN  /\ ta.region # tb.region
           /\ last.pre[ta.host_addr + k] # 0
           /\ last.pre[ta.host_addr + k] < last.pre[tb.host_addr + k]
    /\ result.ok
    /\ result.val # U64Of(0)

\* C7: SyscallWithContext entered with context = 42 resolves to Ok(0) and
\* leaves context = 84; entered with any other context it panics, writes no
\* outcome and leaves the context alone.  Of the invocations on one
\* instance only the first can succeed.
ContextTwoStates ==
    IsOp("SyscallWithContext")
        => /\ IF last.ctx = CONTEXT_EXPECTED
              THEN /\ last.ended = "returned"
                   /\ last.writes = << Ok0 >>
                   /\ result = Ok0
                   /\ context = CONTEXT_USED
              ELSE /\ last.ended = "panicked"
                   /\ last.writes = << >>
                   /\ result = last.slot
                   /\ context = last.ctx
           /\ (last.ended = "returned" => ctxCalls = 1)
           /\ (ctxCalls >= 2 => last.ended = "panicked")

\* the second invocation on an instance whose first one succeeded
ContextSecondCallReached ==
    /\ IsOp("SyscallWithContext")
    /\ ctxCalls = 2
    /\ last.ctx = CONTEXT_USED
    /\ last.ended = "panicked"

\* C8 (as claimed): BpfTracePrintf returns the number of bytes it wrote,
\* the length of the line "BpfTracePrintf: 0x<arg3>, 0x<arg4>, 0x<arg5>\n".
TracePrintfReturnsBytesWritten ==
    IsOp("BpfTracePrintf") => result = Ok(U64Of(LineLen(last.line)))

\* C9 (as claimed): every invocation writes the output slot exactly once.
SlotWrittenOncePerInvocation ==
    last # NoCall => Len(last.writes) = 1

\* C9 (amended): every invocation that returns has written the output slot
\* exactly once, with a success value or a failure cause; the one that
\* panics, SyscallWithContext entered with context # 42, has not written it.
SlotWrittenOncePerReturn ==
    /\ (last # NoCall /\ last.ended = "returned")
          => /\ Len(last.writes) = 1
             /\ result = last.writes[1]
             /\ \/ result.ok /\ DOMAIN result = {"ok", "val"}
                \/ ~result.ok /\ DOMAIN result = {"ok", "err"}
    /\ (last # NoCall /\ last.ended = "panicked")
          => /\ last.op = "SyscallWithContext"
             /\ last.ctx # CONTEXT_EXPECTED
             /\ last.writes = << >>
             /\ result = last.slot

\* an invocation that returned a failure cause
FailureWrittenReached ==
    /\ IsOp("BpfStrCmp")
    /\ last.ended = "returned"
    /\ Len(last.writes) = 1
    /\ ~result.ok
    /\ Len(last.translations) = 2

\* the host address of guest address vm_addr in the writable region
WritableHost(vm_addr) == Regions[3].host_addr + (vm_addr - Regions[3].vm_addr)

\* C10: a successful BpfMemFrob(address, length) XORs each byte of
\* [address, address + length) with 0x2a once and leaves every other byte,
\* of the same region or elsewhere, as it was; with length 0 nothing
\* changes.  The other five syscalls never change memory.
OnlyFrobRangeChanges ==
    /\ (IsOp("BpfMemFrob") /\ result.ok)
          => /\ \A h \in DOMAIN mem :
                    mem[h] = IF /\ WritableHost(last.args[1]) <= h
                                /\ h < WritableHost(last.args[1]) + last.args[2]
                             THEN Xor8(last.pre[h], 42)
                             ELSE last.pre[h]
             /\ (last.args[2] = 0 => mem = last.pre)
    /\ (last # NoCall /\ last.op # "BpfMemFrob") => mem = last.pre

\* a successful BpfMemFrob of one byte with an unchanged byte after it in the
\* same region
FrobInsideReached ==
    /\ IsOp("BpfMemFrob")
    /\ result.ok
    /\ last.args[2] = 1
    /\ WritableHost(last.args[1]) + 1 \in HostRange(3)
    /\ mem[WritableHost(last.args[1])] # last.pre[WritableHost(last.args[1])]
    /\ mem[WritableHost(last.args[1]) + 1] = last.pre[WritableHost(last.args[1]) + 1]

====
